---- MODULE Spec2Model ----
(***************************************************************************)
(* Stock Data Visualizer: the form handler index() of app.py, the API      *)
(* client and series processor of model.py and the chart renderer of       *)
(* view.py, as one state machine.                                          *)
(*                                                                         *)
(* Python strings that the code parses, splits, strips or sorts are        *)
(* sequences of character codes (ASCII), so that str.split, str.strip,     *)
(* str.upper, int(), float(), datetime.strptime and sorted() are computed  *)
(* character by character.  Strings the code only passes around or         *)
(* compares for equality (message texts, dictionary keys) are TLA+ strings.*)
(* None is the empty tuple <<>>; a value that may be None is held in a     *)
(* tuple of length 0 or 1 where the value itself could be empty.           *)
(***************************************************************************)
EXTENDS Integers, Sequences, FiniteSets, TLC

(***************************************************************************)
(* Bounds of the model.                                                    *)
(***************************************************************************)
\* the most entries a modelled remote time series holds
MaxEntries == 2

(***************************************************************************)
(* Python string primitives on character-code sequences.                   *)
(***************************************************************************)
IsDigit(c) == c >= 48 /\ c <= 57

\* str.isspace for the one whitespace character the inputs contain (" ")
IsSpace(c) == c = 32

RECURSIVE LStrip(_)
LStrip(s) == IF s # <<>> /\ IsSpace(Head(s)) THEN LStrip(Tail(s)) ELSE s

RECURSIVE RStrip(_)
RStrip(s) ==
    IF s # <<>> /\ IsSpace(s[Len(s)]) THEN RStrip(SubSeq(s, 1, Len(s) - 1)) ELSE s

\* str.strip()
Strip(s) == RStrip(LStrip(s))

\* str.upper() on ASCII
Upper(s) == [i \in 1..Len(s) |-> IF s[i] >= 97 /\ s[i] <= 122 THEN s[i] - 32 ELSE s[i]]

\* the length of the longest prefix of s without whitespace
RECURSIVE TokenLen(_)
TokenLen(s) == IF s = <<>> \/ IsSpace(Head(s)) THEN 0 ELSE 1 + TokenLen(Tail(s))

\* str.split(): the whitespace-separated tokens, none of them empty
RECURSIVE Split(_)
Split(s) ==
    LET t == LStrip(s)
        n == TokenLen(t)
    IN  IF t = <<>> THEN <<>>
        ELSE <<SubSeq(t, 1, n)>> \o Split(SubSeq(t, n + 1, Len(t)))

\* Python's < on str: lexicographic by code point, a proper prefix first
RECURSIVE StrLess(_, _)
StrLess(a, b) ==
    IF b = <<>> THEN FALSE
    ELSE IF a = <<>> THEN TRUE
    ELSE IF Head(a) # Head(b) THEN Head(a) < Head(b)
    ELSE StrLess(Tail(a), Tail(b))

\* the value of a sequence of decimal digits
RECURSIVE DigitsValue(_)
DigitsValue(s) ==
    IF s = <<>> THEN 0 ELSE 10 * DigitsValue(SubSeq(s, 1, Len(s) - 1)) + (s[Len(s)] - 48)

AllDigits(s) == \A i \in 1..Len(s) : IsDigit(s[i])

(***************************************************************************)
(* int(str): surrounding whitespace is ignored, then decimal digits.       *)
(* (Signs and underscores, which int() also accepts, are not among the     *)
(* form values enumerated below.)  IntRaises is the ValueError.            *)
(***************************************************************************)
IntRaises(s) == Strip(s) = <<>> \/ ~AllDigits(Strip(s))

IntValue(s) == DigitsValue(Strip(s))

(***************************************************************************)
(* float(str) for unsigned decimals "ddd" or "ddd.ddd": the value is kept  *)
(* as the pair <<integer part, fraction digits without trailing zeros>>,   *)
(* so "1.50" and "1.5" are the same number.  FloatRaises is the ValueError.*)
(***************************************************************************)
\* the position of the first "." in s, or 0
RECURSIVE DotPos(_, _)
DotPos(s, i) == IF i > Len(s) THEN 0 ELSE IF s[i] = 46 THEN i ELSE DotPos(s, i + 1)

RECURSIVE TrimZeros(_)
TrimZeros(s) ==
    IF s # <<>> /\ s[Len(s)] = 48 THEN TrimZeros(SubSeq(s, 1, Len(s) - 1)) ELSE s

FloatRaises(s) ==
    LET t == Strip(s)
        p == DotPos(t, 1)
        ip == IF p = 0 THEN t ELSE SubSeq(t, 1, p - 1)
        fp == IF p = 0 THEN <<>> ELSE SubSeq(t, p + 1, Len(t))
    IN  \/ ip \o fp = <<>>
        \/ ~AllDigits(ip)
        \/ ~AllDigits(fp)

FloatValue(s) ==
    LET t == Strip(s)
        p == DotPos(t, 1)
        ip == IF p = 0 THEN t ELSE SubSeq(t, 1, p - 1)
        fp == IF p = 0 THEN <<>> ELSE SubSeq(t, p + 1, Len(t))
    IN  <<DigitsValue(ip), TrimZeros(fp)>>

(***************************************************************************)
(* datetime.strptime(s, '%Y-%m-%d').  The directive patterns are those of  *)
(* CPython's _strptime: %Y is \d\d\d\d, %m is 1[0-2]|0[1-9]|[1-9] and %d   *)
(* is 3[01]|[12]\d|0[1-9]|[1-9]| [1-9]; the whole string has to match, and *)
(* the day has to exist in the month.  A datetime is <<year, month, day>>  *)
(* (the time of day is always midnight); <<>> is the ValueError.           *)
(***************************************************************************)
MonthField(t) ==
    IF Len(t) = 2 /\ t[1] = 49 /\ t[2] >= 48 /\ t[2] <= 50 THEN 10 + (t[2] - 48)
    ELSE IF Len(t) = 2 /\ t[1] = 48 /\ t[2] >= 49 /\ t[2] <= 57 THEN t[2] - 48
    ELSE IF Len(t) = 1 /\ t[1] >= 49 /\ t[1] <= 57 THEN t[1] - 48
    ELSE 0

DayField(t) ==
    IF Len(t) = 2 /\ t[1] = 51 /\ t[2] >= 48 /\ t[2] <= 49 THEN 30 + (t[2] - 48)
    ELSE IF Len(t) = 2 /\ t[1] >= 49 /\ t[1] <= 50 /\ IsDigit(t[2])
        THEN 10 * (t[1] - 48) + (t[2] - 48)
    ELSE IF Len(t) = 2 /\ t[1] \in {48, 32} /\ t[2] >= 49 /\ t[2] <= 57 THEN t[2] - 48
    ELSE IF Len(t) = 1 /\ t[1] >= 49 /\ t[1] <= 57 THEN t[1] - 48
    ELSE 0

IsLeap(y) == (y % 4 = 0 /\ y % 100 # 0) \/ y % 400 = 0

DaysInMonth(y, m) ==
    IF m = 2 THEN (IF IsLeap(y) THEN 29 ELSE 28)
    ELSE IF m \in {4, 6, 9, 11} THEN 30
    ELSE 31

\* the parse with a month field of mlen characters, or <<>>
StrptimeWith(s, mlen) ==
    IF /\ Len(s) >= 7 + mlen
       /\ AllDigits(SubSeq(s, 1, 4))
       /\ s[5] = 45
       /\ s[6 + mlen] = 45
    THEN LET y == DigitsValue(SubSeq(s, 1, 4))
             m == MonthField(SubSeq(s, 6, 5 + mlen))
             d == DayField(SubSeq(s, 7 + mlen, Len(s)))
         IN  IF y >= 1 /\ m >= 1 /\ d >= 1 /\ d <= DaysInMonth(y, m)
             THEN <<y, m, d>>
             ELSE <<>>
    ELSE <<>>

Strptime(s) ==
    IF StrptimeWith(s, 2) # <<>> THEN StrptimeWith(s, 2) ELSE StrptimeWith(s, 1)

\* datetime <= datetime
DateLE(a, b) ==
    \/ a[1] < b[1]
    \/ a[1] = b[1] /\ a[2] < b[2]
    \/ a[1] = b[1] /\ a[2] = b[2] /\ a[3] <= b[3]

\* model.py validate_date_format: the datetime, or None on ValueError
validate_date_format(date_string) == Strptime(date_string)

\* model.py validate_date_range
validate_date_range(start, end) == DateLE(start, end)

(***************************************************************************)
(* JSON payloads.  A payload is a record                                   *)
(*   [kind, keys, series, text, n]                                         *)
(* kind "object": keys are the top-level key names and series is the value *)
(*   under its time-series key (a mapping in arrival order: a sequence of  *)
(*   entries [k |-> timestamp, v |-> fields], the timestamps distinct);    *)
(* kind "list": n is its length (its items are numbers);                   *)
(* kind "number": n is its value; kind "string": text is its characters;   *)
(* kind "null".                                                            *)
(***************************************************************************)
Payload(kind, keys, series, text, n) ==
    [kind |-> kind, keys |-> keys, series |-> series, text |-> text, n |-> n]

\* the characters of the two sentinel key names
KeyChars(key) ==
    IF key = "Error Message"
    THEN <<69, 114, 114, 111, 114, 32, 77, 101, 115, 115, 97, 103, 101>>
    ELSE IF key = "Note" THEN <<78, 111, 116, 101>>
    ELSE <<0>>

IsSubstr(p, s) == \E i \in 1..(Len(s) - Len(p) + 1) : SubSeq(s, i, i + Len(p) - 1) = p

\* Python's `key in data` raises TypeError for these
InRaises(data) == data.kind \in {"number", "null"}

\* Python's `key in data`: dict key, list item, substring
KeyIn(key, data) ==
    IF data.kind = "object" THEN key \in data.keys
    ELSE IF data.kind = "string" THEN IsSubstr(KeyChars(key), data.text)
    ELSE FALSE

\* Python truth value of a payload
Truthy(data) ==
    IF data.kind = "object" THEN data.keys # {}
    ELSE IF data.kind = "list" THEN data.n > 0
    ELSE IF data.kind = "number" THEN data.n # 0
    ELSE IF data.kind = "string" THEN data.text # <<>>
    ELSE FALSE

(***************************************************************************)
(* model.py AlphaVantageAPI                                                *)
(***************************************************************************)
BASE_URL == "https://www.alphavantage.co/query"

API_KEY == "API_KEY"

function_map ==
    (1 :> "TIME_SERIES_INTRADAY") @@ (2 :> "TIME_SERIES_DAILY") @@
    (3 :> "TIME_SERIES_WEEKLY") @@ (4 :> "TIME_SERIES_MONTHLY")

\* a variant of AddsInterval that also sends the interval for daily data
AddsInterval_Daily(time_series) == time_series \in {1, 2}

\* does the intraday interval go into the request
AddsInterval(time_series) == time_series = 1

\* the request parameters of fetch_stock_data
RequestParams(symbol, time_series) ==
    LET params == [function |-> function_map[time_series],
                   symbol |-> symbol,
                   apikey |-> API_KEY,
                   outputsize |-> "full"]
    IN  IF AddsInterval(time_series) THEN params @@ [interval |-> "60min"] ELSE params

\* response.raise_for_status(): HTTPError for 4xx and 5xx
RaisesForStatus(status) == status >= 400 /\ status < 600

\* a variant of IsApiFailure that does not look for the advisory note
IsApiFailure_ErrorOnly(data) == KeyIn("Error Message", data)

\* `"Error Message" in data` / `"Note" in data`: the payload is unusable
IsApiFailure(data) == KeyIn("Error Message", data) \/ KeyIn("Note", data)

(***************************************************************************)
(* fetch_stock_data(symbol, time_series) against the remote reply          *)
(*   [transport, status, json, body]:                                      *)
(* transport "ok" or a requests exception ("Timeout", "ConnectionError"),  *)
(* the HTTP status, whether the body is JSON, and the payload.             *)
(* A body that is not JSON makes response.json() raise                     *)
(* requests.exceptions.JSONDecodeError, which is a RequestException.       *)
(* The result is [exc, get, params, ret]: the exception that leaves the    *)
(* function ("" for none), whether requests.get was called, the request    *)
(* parameters, and the return value (<<>> is None, else <<payload>>).      *)
(***************************************************************************)
FetchResult(exc, get, params, ret) ==
    [exc |-> exc, get |-> get, params |-> params, ret |-> ret]

fetch_stock_data(symbol, time_series, reply) ==
    IF time_series \notin DOMAIN function_map
    THEN FetchResult("KeyError", FALSE, <<>>, <<>>)
    ELSE LET params == RequestParams(symbol, time_series)
         IN  IF reply.transport # "ok"
             THEN FetchResult("", TRUE, params, <<>>)
             ELSE IF RaisesForStatus(reply.status)
             THEN FetchResult("", TRUE, params, <<>>)
             ELSE IF ~reply.json
             THEN FetchResult("", TRUE, params, <<>>)
             ELSE IF InRaises(reply.body)
             THEN FetchResult("TypeError", TRUE, params, <<>>)
             ELSE IF IsApiFailure(reply.body)
             THEN FetchResult("", TRUE, params, <<>>)
             ELSE FetchResult("", TRUE, params, <<reply.body>>)

(***************************************************************************)
(* model.py StockData                                                      *)
(***************************************************************************)
time_series_key_map ==
    (1 :> "Time Series (60min)") @@ (2 :> "Time Series (Daily)") @@
    (3 :> "Weekly Time Series") @@ (4 :> "Monthly Time Series")

\* a variant of InRange that leaves the end date out
InRange_ExclusiveEnd(date_obj, start_date, end_date) ==
    DateLE(start_date, date_obj) /\ DateLE(date_obj, end_date) /\ date_obj # end_date

\* start_date <= date_obj <= end_date
InRange(date_obj, start_date, end_date) ==
    DateLE(start_date, date_obj) /\ DateLE(date_obj, end_date)

(***************************************************************************)
(* The loop of filter_by_date_range over the items in arrival order, with  *)
(* the entries kept so far.  [exc, filtered]: date_str.split()[0] raises   *)
(* IndexError on a blank timestamp and strptime raises ValueError.         *)
(***************************************************************************)
RECURSIVE FilterLoop(_, _, _, _)
FilterLoop(items, start_date, end_date, kept) ==
    IF items = <<>> THEN [exc |-> "", filtered |-> kept]
    ELSE LET date_str == Head(items).k
             tokens == Split(date_str)
         IN  IF tokens = <<>> THEN [exc |-> "IndexError", filtered |-> kept]
             ELSE LET date_obj == Strptime(tokens[1])
                  IN  IF date_obj = <<>> THEN [exc |-> "ValueError", filtered |-> kept]
                      ELSE FilterLoop(Tail(items), start_date, end_date,
                               IF InRange(date_obj, start_date, end_date)
                               THEN Append(kept, Head(items))
                               ELSE kept)

\* a variant of filter_by_date_range that looks the series up unchecked
filter_by_date_range_Unchecked(raw_data, time_series, start_date, end_date) ==
    IF time_series \notin DOMAIN time_series_key_map
       \/ ~KeyIn(time_series_key_map[time_series], raw_data)
    THEN [exc |-> "KeyError", filtered |-> <<>>]
    ELSE FilterLoop(raw_data.series, start_date, end_date, <<>>)

\* filter_by_date_range: [exc, filtered], filtered being self.filtered_data
filter_by_date_range(raw_data, time_series, start_date, end_date) ==
    IF time_series \notin DOMAIN time_series_key_map
    THEN [exc |-> "KeyError", filtered |-> <<>>]
    ELSE IF ~KeyIn(time_series_key_map[time_series], raw_data)
    THEN [exc |-> "", filtered |-> <<>>]
    ELSE FilterLoop(raw_data.series, start_date, end_date, <<>>)

\* sorted(keys): insertion of one key into a sorted list
RECURSIVE InsertSorted(_, _)
InsertSorted(x, s) ==
    IF s = <<>> THEN <<x>>
    ELSE IF StrLess(x, Head(s)) THEN <<x>> \o s
    ELSE <<Head(s)>> \o InsertSorted(x, Tail(s))

RECURSIVE Sorted(_)
Sorted(s) == IF s = <<>> THEN <<>> ELSE InsertSorted(Head(s), Sorted(Tail(s)))

\* self.filtered_data.keys()
DictKeys(d) == [i \in 1..Len(d) |-> d[i].k]

\* a variant of SortedDates that keeps the arrival order
SortedDates_Unsorted(filtered) == DictKeys(filtered)

\* sorted(self.filtered_data.keys())
SortedDates(filtered) == Sorted(DictKeys(filtered))

\* self.filtered_data[date]
DictGet(d, key) == (CHOOSE e \in {d[i] : i \in 1..Len(d)} : e.k = key).v

PriceFields == <<"1. open", "2. high", "3. low", "4. close">>

\* the first exception met converting the four fields of one entry, or ""
RECURSIVE ValuesExc(_, _)
ValuesExc(values, i) ==
    IF i > Len(PriceFields) THEN ""
    ELSE IF PriceFields[i] \notin DOMAIN values THEN "KeyError"
    ELSE IF FloatRaises(values[PriceFields[i]]) THEN "ValueError"
    ELSE ValuesExc(values, i + 1)

EmptyFormatted == [dates |-> <<>>, open |-> <<>>, high |-> <<>>, low |-> <<>>, close |-> <<>>]

RECURSIVE FormatLoop(_, _, _)
\* a variant of FormatLoop that emits one point per date
FormatLoop_OnePerDate(sorted_dates, filtered, acc) ==
    IF sorted_dates = <<>> THEN [exc |-> "", data |-> <<acc>>]
    ELSE LET date == Head(sorted_dates)
             values == DictGet(filtered, date)
         IN  IF ValuesExc(values, 1) # "" THEN [exc |-> ValuesExc(values, 1), data |-> <<>>]
             ELSE IF \E i \in 1..Len(acc.dates) : acc.dates[i] = Split(date)[1]
             THEN FormatLoop(Tail(sorted_dates), filtered, acc)
             ELSE FormatLoop(Tail(sorted_dates), filtered,
                      [dates |-> Append(acc.dates, Split(date)[1]),
                       open |-> Append(acc.open, FloatValue(values["1. open"])),
                       high |-> Append(acc.high, FloatValue(values["2. high"])),
                       low |-> Append(acc.low, FloatValue(values["3. low"])),
                       close |-> Append(acc.close, FloatValue(values["4. close"]))])

\* the loop of get_formatted_data over the sorted keys: [exc, data]
FormatLoop(sorted_dates, filtered, acc) ==
    IF sorted_dates = <<>> THEN [exc |-> "", data |-> <<acc>>]
    ELSE LET date == Head(sorted_dates)
             values == DictGet(filtered, date)
         IN  IF ValuesExc(values, 1) # "" THEN [exc |-> ValuesExc(values, 1), data |-> <<>>]
             ELSE FormatLoop(Tail(sorted_dates), filtered,
                      [dates |-> Append(acc.dates, Split(date)[1]),
                       open |-> Append(acc.open, FloatValue(values["1. open"])),
                       high |-> Append(acc.high, FloatValue(values["2. high"])),
                       low |-> Append(acc.low, FloatValue(values["3. low"])),
                       close |-> Append(acc.close, FloatValue(values["4. close"]))])

\* get_formatted_data: [exc, data], data <<>> for None, else <<the lists>>
get_formatted_data(filtered) ==
    IF filtered = <<>> THEN [exc |-> "", data |-> <<>>]
    ELSE FormatLoop(SortedDates(filtered), filtered, EmptyFormatted)

(***************************************************************************)
(* view.py ChartGenerator.create_chart: <<>> for None, else <<the chart>>  *)
(* (the fields the HTML block is built from).                              *)
(***************************************************************************)
\* a variant of create_chart that wants two points to draw a line
create_chart_NeedsTwoPoints(data, symbol, chart_type, start_date, end_date) ==
    IF data = <<>> \/ Len(data[1].dates) < 2 THEN <<>>
    ELSE <<[type |-> IF chart_type = 1 THEN "bar" ELSE "line",
            symbol |-> symbol,
            start |-> start_date,
            end |-> end_date,
            labels |-> data[1].dates,
            open |-> data[1].open,
            high |-> data[1].high,
            low |-> data[1].low,
            close |-> data[1].close]>>

create_chart(data, symbol, chart_type, start_date, end_date) ==
    IF data = <<>> \/ data[1].dates = <<>> THEN <<>>
    ELSE <<[type |-> IF chart_type = 1 THEN "bar" ELSE "line",
            symbol |-> symbol,
            start |-> start_date,
            end |-> end_date,
            labels |-> data[1].dates,
            open |-> data[1].open,
            high |-> data[1].high,
            low |-> data[1].low,
            close |-> data[1].close]>>

(***************************************************************************)
(* app.py load_symbols.  The file stocks.csv is <<>> when it cannot be     *)
(* read, else <<rows>>, each row the text of its Symbol column.            *)
(***************************************************************************)
FallbackSymbols ==
    << <<65, 65, 80, 76>>, <<71, 79, 79, 71, 76>>, <<77, 83, 70, 84>>,
       <<65, 77, 90, 78>>, <<84, 83, 76, 65>> >>

\* sorted(S) of a set of strings
RECURSIVE SortedSet(_)
SortedSet(S) ==
    IF S = {} THEN <<>>
    ELSE LET least == CHOOSE x \in S : \A y \in S \ {x} : StrLess(x, y)
         IN  <<least>> \o SortedSet(S \ {least})

load_symbols(csv) ==
    IF csv = <<>> THEN FallbackSymbols
    ELSE LET rows == csv[1]
         IN  SortedSet({Upper(Strip(rows[i])) : i \in {j \in 1..Len(rows) : rows[j] # <<>>}})

(***************************************************************************)
(* app.py index(): what a request leaves behind.                           *)
(***************************************************************************)
\* flash(message, category); symbol, start, end and points are what the
\* f-string messages embed
Flash(category, message, symbol, start, end, points) ==
    [category |-> category, message |-> message, symbol |-> symbol,
     start |-> start, end |-> end, points |-> points]

MsgSymbol == "Please select a stock symbol."
MsgDates == "Please provide both start and end dates."
MsgFormat == "Invalid date format. Please use YYYY-MM-DD."
MsgRange == "End date must be on or after the start date."
MsgFetch == "Failed to fetch stock data. Please check the symbol and try again."
MsgEmpty == "No data found for {symbol} in the date range {start} to {end}."
MsgChart == "Failed to generate chart."
MsgSuccess == "Successfully generated chart for {symbol} with {n} data points."

\* render_template("index.html", symbols=, chart_html=, selected_symbol=)
Rendered(syms, chart, selected) ==
    [kind |-> "template", exc |-> "", symbols |-> syms, chart_html |-> chart,
     selected_symbol |-> selected]

\* an exception that leaves index(): the request ends in a server error
Raised(exc) ==
    [kind |-> "exception", exc |-> exc, symbols |-> <<>>, chart_html |-> <<>>,
     selected_symbol |-> <<>>]

\* request.form.get(name, default): a field is <<>> when absent, else <<text>>
FormGet(field, default) == IF field = <<>> THEN default ELSE field[1]

(***************************************************************************)
(* Lines 41-66 of index(): reading and validating the form.  The result is *)
(* [exc, flash, ...locals]: the exception raised ("" for none), the        *)
(* validation message flashed (<<>> for none), and the locals assigned.    *)
(***************************************************************************)
ValidationResult(exc, flash, sym, ct, ts, sstr, estr, sd, ed) ==
    [exc |-> exc, flash |-> flash, selected_symbol |-> sym, chart_type |-> ct,
     time_series |-> ts, start_date_str |-> sstr, end_date_str |-> estr,
     start_date |-> sd, end_date |-> ed]

\* `not start_date or not end_date`: a datetime is always true, None is not
DateParseFailed(start_date, end_date) == start_date = <<>> \/ end_date = <<>>

ValidateForm(f) ==
    LET sym == Upper(Strip(FormGet(f.symbol, <<>>)))
        ct_raw == FormGet(f.chart_type, <<50>>)
        ts_raw == FormGet(f.time_series, <<50>>)
        sstr == Strip(FormGet(f.start_date, <<>>))
        estr == Strip(FormGet(f.end_date, <<>>))
        sd == validate_date_format(sstr)
        ed == validate_date_format(estr)
    IN  IF IntRaises(ct_raw)
        THEN ValidationResult("ValueError", <<>>, sym, 0, 0, <<>>, <<>>, <<>>, <<>>)
        ELSE IF IntRaises(ts_raw)
        THEN ValidationResult("ValueError", <<>>, sym, IntValue(ct_raw), 0,
                              <<>>, <<>>, <<>>, <<>>)
        ELSE LET ct == IntValue(ct_raw)
                 ts == IntValue(ts_raw)
             IN  IF sym = <<>>
                 THEN ValidationResult("", <<Flash("error", MsgSymbol, <<>>, <<>>, <<>>, 0)>>,
                                       sym, ct, ts, sstr, estr, <<>>, <<>>)
                 ELSE IF sstr = <<>> \/ estr = <<>>
                 THEN ValidationResult("", <<Flash("error", MsgDates, <<>>, <<>>, <<>>, 0)>>,
                                       sym, ct, ts, sstr, estr, <<>>, <<>>)
                 ELSE IF DateParseFailed(sd, ed)
                 THEN ValidationResult("", <<Flash("error", MsgFormat, <<>>, <<>>, <<>>, 0)>>,
                                       sym, ct, ts, sstr, estr, sd, ed)
                 ELSE IF ~validate_date_range(sd, ed)
                 THEN ValidationResult("", <<Flash("error", MsgRange, <<>>, <<>>, <<>>, 0)>>,
                                       sym, ct, ts, sstr, estr, sd, ed)
                 ELSE ValidationResult("", <<>>, sym, ct, ts, sstr, estr, sd, ed)

\* `not raw_data` at line 73: None, or a payload that is false
FetchFailed(ret) == ret = <<>> \/ ~Truthy(ret[1])

\* `not formatted_data or not formatted_data.get('dates')` at line 82
NoData(data) == data = <<>> \/ data[1].dates = <<>>

(***************************************************************************)
(* The inputs: form submissions, the symbol file and remote replies.       *)
(***************************************************************************)
Digits2(n) == <<48 + (n \div 10), 48 + (n % 10)>>

Digits4(n) == Digits2(n \div 100) \o Digits2(n % 100)

\* a calendar date written YYYY-MM-DD, as the remote API writes it
IsoDate(y, m, d) == Digits4(y) \o <<45>> \o Digits2(m) \o <<45>> \o Digits2(d)

\* a timestamp of the remote API: YYYY-MM-DD, or YYYY-MM-DD HH:00:00 when
\* the record has an hour (hour = 24 stands for "no time of day")
Timestamp(t) ==
    IF t.hour = 24 THEN IsoDate(t.y, t.m, t.d)
    ELSE IsoDate(t.y, t.m, t.d) \o <<32>> \o Digits2(t.hour) \o <<58, 48, 48, 58, 48, 48>>

\* the well-formed timestamps of the modelled series: two days of one
\* month, a day of the year before, and two hours of one day
GoodStamps ==
    { [y |-> 2024, m |-> 1, d |-> 2, hour |-> 24],
      [y |-> 2024, m |-> 1, d |-> 5, hour |-> 24],
      [y |-> 2023, m |-> 12, d |-> 29, hour |-> 24],
      [y |-> 2024, m |-> 1, d |-> 2, hour |-> 9],
      [y |-> 2024, m |-> 1, d |-> 2, hour |-> 10] }

\* "2024-13-40": a timestamp no calendar has
BadStamp == <<50, 48, 50, 52, 45, 49, 51, 45, 52, 48>>

SeriesKeys == {Timestamp(t) : t \in GoodStamps} \cup {BadStamp}

\* the four price fields of the i-th entry of a series: "i", "i+1",
\* "i-1.5" and "i.50"; defect "text" makes the close "n/a", defect
\* "missing" leaves the close out
GoodValues(i) ==
    ("1. open" :> <<48 + i>>) @@ ("2. high" :> <<49 + i>>) @@
    ("3. low" :> <<47 + i, 46, 53>>) @@ ("4. close" :> <<48 + i, 46, 53, 48>>)

ValuesOf(i, defect) ==
    IF defect = "text" THEN [GoodValues(i) EXCEPT !["4. close"] = <<110, 47, 97>>]
    ELSE IF defect = "missing"
    THEN [x \in {"1. open", "2. high", "3. low"} |-> GoodValues(i)[x]]
    ELSE GoodValues(i)

\* the sequences of at most n distinct keys
RECURSIVE KeySeqs(_)
KeySeqs(n) ==
    IF n = 0 THEN {<<>>}
    ELSE LET shorter == KeySeqs(n - 1)
         IN  shorter \cup
             UNION {{Append(s, k) : k \in SeriesKeys \ {s[i] : i \in 1..Len(s)}} :
                       s \in {q \in shorter : Len(q) = n - 1}}

\* the modelled series: the keys in any arrival order, at most one entry
\* of them defective
SeriesSet ==
    {[i \in 1..Len(ks) |-> [k |-> ks[i], v |-> ValuesOf(i, IF i = at THEN defect ELSE "")]] :
        ks \in KeySeqs(MaxEntries), at \in 0..MaxEntries, defect \in {"text", "missing"}}

ObjectPayload(keys, series) == Payload("object", keys, series, <<>>, 0)

Payloads ==
    {ObjectPayload({key}, series) :
        key \in {time_series_key_map[1], time_series_key_map[2]}, series \in SeriesSet}
    \cup {ObjectPayload({"Error Message"}, <<>>),
          ObjectPayload({"Note"}, <<>>),
          ObjectPayload({"Note", time_series_key_map[2]},
                        <<[k |-> IsoDate(2024, 1, 2), v |-> GoodValues(1)]>>),
          ObjectPayload({"Information"}, <<>>),
          ObjectPayload({}, <<>>),
          Payload("list", {}, <<>>, <<>>, 0),
          Payload("list", {}, <<>>, <<>>, 2),
          Payload("number", {}, <<>>, <<>>, 5),
          Payload("null", {}, <<>>, <<>>, 0),
          Payload("string", {}, <<>>, KeyChars("Error Message"), 0),
          Payload("string", {}, <<>>, <<111, 107>>, 0)}

NoPayload == Payload("null", {}, <<>>, <<>>, 0)

Reply(transport, status, json, body) ==
    [transport |-> transport, status |-> status, json |-> json, body |-> body]

Replies ==
    {Reply(t, 0, FALSE, NoPayload) : t \in {"Timeout", "ConnectionError"}}
    \cup {Reply("ok", st, FALSE, NoPayload) : st \in {200, 300, 404, 500}}
    \cup {Reply("ok", 200, TRUE, b) : b \in Payloads}
    \cup {Reply("ok", st, TRUE,
                ObjectPayload({time_series_key_map[2]},
                              <<[k |-> IsoDate(2024, 1, 2), v |-> GoodValues(1)]>>)) :
              st \in {300, 404, 500}}

\* form fields: <<>> when the field is absent, else <<text>>
SymbolInputs == {<<>>, << <<32>> >>, << <<32, 105, 98, 109>> >>}

ChartTypeInputs == {<<>>, << <<49>> >>, << <<120>> >>}

TimeSeriesInputs ==
    {<<>>, << <<49>> >>, << <<51>> >>, << <<52>> >>, << <<55>> >>, << <<120>> >>}

\* absent, " 2024-01-02", "2024-1-5", "2024-02-01" and "2024-13-40"
DateInputs ==
    {<<>>, << <<32>> \o IsoDate(2024, 1, 2) >>, << <<50, 48, 50, 52, 45, 49, 45, 53>> >>,
     << IsoDate(2024, 2, 1) >>, << BadStamp >>}

\* " 2024-01-02" and "2024-1-5"
SomeDateInputs == {<< <<32>> \o IsoDate(2024, 1, 2) >>, << <<50, 48, 50, 52, 45, 49, 45, 53>> >>}

\* The submissions: every symbol, date pair and intraday/daily/unknown/
\* unreadable granularity with the default chart type; every chart type
\* with every symbol and some dates; the weekly and monthly granularity
\* with some dates.
Forms ==
    [symbol : SymbolInputs, chart_type : {<<>>},
     time_series : TimeSeriesInputs \ {<< <<51>> >>, << <<52>> >>},
     start_date : DateInputs, end_date : DateInputs]
    \cup
    [symbol : SymbolInputs, chart_type : ChartTypeInputs \ {<<>>},
     time_series : {<<>>, << <<120>> >>},
     start_date : {<< <<32>> \o IsoDate(2024, 1, 2) >>}, end_date : SomeDateInputs]
    \cup
    [symbol : SymbolInputs, chart_type : {<<>>},
     time_series : {<< <<51>> >>, << <<52>> >>},
     start_date : {<< <<32>> \o IsoDate(2024, 1, 2) >>}, end_date : SomeDateInputs]

NoForm ==
    [symbol |-> <<>>, chart_type |-> <<>>, time_series |-> <<>>,
     start_date |-> <<>>, end_date |-> <<>>]

\* stocks.csv: missing, or rows " msft", "aapl", "AAPL" and an empty cell
CsvFiles ==
    {<<>>, << << <<32, 109, 115, 102, 116>>, <<97, 97, 112, 108>>, <<65, 65, 80, 76>>, <<>> >> >>}

(***************************************************************************)
(* The state: the request being served, the locals of index(), the calls   *)
(* made for it and what it answered.                                       *)
(***************************************************************************)
VARIABLES
    pc,               \* position in index(): idle, fetch, process, render, done
    stocks_csv,       \* the symbol file
    method,           \* request.method
    form,             \* request.form
    symbols,          \* load_symbols()
    selected_symbol,  \* <<>> is None
    chart_type,
    time_series,
    start_date_str,
    end_date_str,
    start_date,
    end_date,
    calls,            \* the component calls made for this request, in order
    remote,           \* the reply of the remote end to requests.get: <<>> or <<reply>>
    params,           \* the query parameters of requests.get
    raw_data,         \* what fetch_stock_data returned: <<>> or <<payload>>
    filtered_data,    \* stock_data.filtered_data
    formatted_data,   \* <<>> is None
    chart_html,       \* <<>> is None
    flashes,          \* the messages flashed
    response          \* <<>> while the request runs, else <<what index() ended in>>

vars ==
    <<pc, stocks_csv, method, form, symbols, selected_symbol, chart_type, time_series,
      start_date_str, end_date_str, start_date, end_date, calls, remote, params, raw_data,
      filtered_data, formatted_data, chart_html, flashes, response>>

locals ==
    <<selected_symbol, chart_type, time_series, start_date_str, end_date_str,
      start_date, end_date>>

NoRequest ==
    /\ pc = "idle"
    /\ method = ""
    /\ form = NoForm
    /\ symbols = <<>>
    /\ selected_symbol = <<>>
    /\ chart_type = 0
    /\ time_series = 0
    /\ start_date_str = <<>>
    /\ end_date_str = <<>>
    /\ start_date = <<>>
    /\ end_date = <<>>
    /\ calls = <<>>
    /\ remote = <<>>
    /\ params = <<>>
    /\ raw_data = <<>>
    /\ filtered_data = <<>>
    /\ formatted_data = <<>>
    /\ chart_html = <<>>
    /\ flashes = <<>>
    /\ response = <<>>

Init ==
    /\ stocks_csv \in CsvFiles
    /\ NoRequest

\* a GET: lines 35-37 and 102
Get ==
    /\ pc = "idle"
    /\ method' = "GET"
    /\ symbols' = load_symbols(stocks_csv)
    /\ response' = <<Rendered(symbols', <<>>, <<>>)>>
    /\ pc' = "done"
    /\ UNCHANGED <<stocks_csv, form, locals, calls, remote, params, raw_data,
                   filtered_data, formatted_data, chart_html, flashes>>

\* a POST up to the end of validation: lines 35-66
Post(f) ==
    /\ pc = "idle"
    /\ method' = "POST"
    /\ form' = f
    /\ symbols' = load_symbols(stocks_csv)
    /\ LET v == ValidateForm(f)
       IN  /\ selected_symbol' = <<v.selected_symbol>>
           /\ chart_type' = v.chart_type
           /\ time_series' = v.time_series
           /\ start_date_str' = v.start_date_str
           /\ end_date_str' = v.end_date_str
           /\ start_date' = v.start_date
           /\ end_date' = v.end_date
           /\ flashes' = v.flash
           /\ IF v.exc # ""
              THEN response' = <<Raised(v.exc)>> /\ pc' = "done"
              ELSE IF v.flash # <<>>
              THEN /\ response' = <<Rendered(symbols', <<>>, <<v.selected_symbol>>)>>
                   /\ pc' = "done"
              ELSE response' = <<>> /\ pc' = "fetch"
    /\ UNCHANGED <<stocks_csv, calls, remote, params, raw_data, filtered_data,
                   formatted_data, chart_html>>

\* lines 68-75: the API client against the reply the remote end gives
Fetch(reply) ==
    /\ pc = "fetch"
    /\ LET r == fetch_stock_data(selected_symbol[1], time_series, reply)
       IN  /\ calls' = calls \o <<"fetch_stock_data">>
                       \o (IF r.get THEN <<"requests.get">> ELSE <<>>)
           /\ remote' = IF r.get THEN <<reply>> ELSE <<>>
           /\ params' = r.params
           /\ IF r.exc # ""
              THEN /\ response' = <<Raised(r.exc)>>
                   /\ pc' = "done"
                   /\ UNCHANGED <<raw_data, flashes>>
              ELSE /\ raw_data' = r.ret
                   /\ IF FetchFailed(r.ret)
                      THEN /\ flashes' = <<Flash("error", MsgFetch, <<>>, <<>>, <<>>, 0)>>
                           /\ response' = <<Rendered(symbols, <<>>, selected_symbol)>>
                           /\ pc' = "done"
                      ELSE /\ pc' = "process"
                           /\ UNCHANGED <<flashes, response>>
    /\ UNCHANGED <<stocks_csv, method, form, symbols, locals, filtered_data,
                   formatted_data, chart_html>>

\* lines 77-84: the series processor
Process ==
    /\ pc = "process"
    /\ LET flt == filter_by_date_range(raw_data[1], time_series, start_date, end_date)
           fmt == get_formatted_data(flt.filtered)
       IN  IF flt.exc # ""
           THEN /\ calls' = Append(calls, "filter_by_date_range")
                /\ response' = <<Raised(flt.exc)>>
                /\ pc' = "done"
                /\ UNCHANGED <<filtered_data, formatted_data, flashes>>
           ELSE /\ calls' = calls \o <<"filter_by_date_range", "get_formatted_data">>
                /\ filtered_data' = flt.filtered
                /\ IF fmt.exc # ""
                   THEN /\ response' = <<Raised(fmt.exc)>>
                        /\ pc' = "done"
                        /\ UNCHANGED <<formatted_data, flashes>>
                   ELSE /\ formatted_data' = fmt.data
                        /\ IF NoData(fmt.data)
                           THEN /\ flashes' = <<Flash("warning", MsgEmpty, selected_symbol[1],
                                                      start_date_str, end_date_str, 0)>>
                                /\ response' = <<Rendered(symbols, <<>>, selected_symbol)>>
                                /\ pc' = "done"
                           ELSE /\ pc' = "render"
                                /\ UNCHANGED <<flashes, response>>
    /\ UNCHANGED <<stocks_csv, method, form, symbols, locals, remote, params, raw_data,
                   chart_html>>

\* lines 86-102: the chart renderer
Render ==
    /\ pc = "render"
    /\ calls' = Append(calls, "create_chart")
    /\ chart_html' = create_chart(formatted_data, selected_symbol[1], chart_type,
                                  start_date_str, end_date_str)
    /\ IF chart_html' = <<>>
       THEN /\ flashes' = <<Flash("error", MsgChart, <<>>, <<>>, <<>>, 0)>>
            /\ response' = <<Rendered(symbols, <<>>, selected_symbol)>>
       ELSE /\ flashes' = <<Flash("success", MsgSuccess, selected_symbol[1], <<>>, <<>>,
                                  Len(formatted_data[1].dates))>>
            /\ response' = <<Rendered(symbols, chart_html', selected_symbol)>>
    /\ pc' = "done"
    /\ UNCHANGED <<stocks_csv, method, form, symbols, locals, remote, params, raw_data,
                   filtered_data, formatted_data>>

\* the response is sent; nothing of the request is kept
Finish ==
    /\ pc = "done"
    /\ pc' = "idle"
    /\ method' = ""
    /\ form' = NoForm
    /\ symbols' = <<>>
    /\ selected_symbol' = <<>>
    /\ chart_type' = 0
    /\ time_series' = 0
    /\ start_date_str' = <<>>
    /\ end_date_str' = <<>>
    /\ start_date' = <<>>
    /\ end_date' = <<>>
    /\ calls' = <<>>
    /\ remote' = <<>>
    /\ params' = <<>>
    /\ raw_data' = <<>>
    /\ filtered_data' = <<>>
    /\ formatted_data' = <<>>
    /\ chart_html' = <<>>
    /\ flashes' = <<>>
    /\ response' = <<>>
    /\ UNCHANGED stocks_csv

Next ==
    \/ Get
    \/ \E f \in Forms : Post(f)
    \/ \E reply \in Replies : Fetch(reply)
    \/ Process
    \/ Render
    \/ Finish

Spec == Init /\ [][Next]_vars

(***************************************************************************)
(* What the properties below speak of.                                     *)
(***************************************************************************)
Called(name) == \E i \in 1..Len(calls) : calls[i] = name

CallCount(name) == Cardinality({i \in 1..Len(calls) : calls[i] = name})

Flashed(message) == \E i \in 1..Len(flashes) : flashes[i].message = message

Answered == response # <<>>

Crashed == Answered /\ response[1].kind = "exception"

\* the form is shown again, with the symbol list and without a chart
FormRedisplayed ==
    /\ Answered
    /\ response[1].kind = "template"
    /\ response[1].symbols = load_symbols(stocks_csv)
    /\ response[1].symbols # <<>>
    /\ response[1].chart_html = <<>>

\* a calendar day as one number, ordered as the calendar is
Ordinal(date) == date[1] * 10000 + date[2] * 100 + date[3]

\* the calendar day a submitted date text stands for: <<>> when the text
\* names no day
DayMeant(text) ==
    IF text = IsoDate(2024, 1, 2) THEN <<2024, 1, 2>>
    ELSE IF text = <<50, 48, 50, 52, 45, 49, 45, 53>> THEN <<2024, 1, 5>>
    ELSE IF text = IsoDate(2024, 2, 1) THEN <<2024, 2, 1>>
    ELSE <<>>

\* a submitted field without its surrounding blanks ("" when absent)
Submitted(field) ==
    IF field = <<>> THEN <<>>
    ELSE SelectSeq(field[1], LAMBDA c : c # 32)

SymbolMissing == Submitted(form.symbol) = <<>>

DateMissing == Submitted(form.start_date) = <<>> \/ Submitted(form.end_date) = <<>>

DateUnparseable ==
    DayMeant(Submitted(form.start_date)) = <<>> \/ DayMeant(Submitted(form.end_date)) = <<>>

EndBeforeStart ==
    Ordinal(DayMeant(Submitted(form.end_date))) < Ordinal(DayMeant(Submitted(form.start_date)))

\* the record a well-formed timestamp was written from
StampOf(key) == CHOOSE t \in GoodStamps : Timestamp(t) = key

WellFormed(key) == \E t \in GoodStamps : Timestamp(t) = key

\* the day of a timestamp lies in the submitted range, ends included
DayInRange(key) ==
    LET t == StampOf(key)
        day == Ordinal(<<t.y, t.m, t.d>>)
    IN  /\ Ordinal(DayMeant(Submitted(form.start_date))) <= day
        /\ day <= Ordinal(DayMeant(Submitted(form.end_date)))

\* the series the remote reply holds for the requested granularity
SeriesKeyPresent ==
    /\ raw_data # <<>>
    /\ raw_data[1].kind = "object"
    /\ time_series \in 1..4
    /\ time_series_key_map[time_series] \in raw_data[1].keys

FilterCompleted == Called("get_formatted_data")

Entries(d) == {d[i] : i \in 1..Len(d)}

(***************************************************************************)
(* C1: every submission whose symbol is missing, whose dates are missing   *)
(* or unparseable, or whose end precedes its start ends with the           *)
(* validation message of that check, and requests.get is not called; it is *)
(* called only after all four checks passed, and at most once.             *)
(***************************************************************************)
C1_ValidationBeforeFetch ==
    (method = "POST") =>
        /\ SymbolMissing => Flashed(MsgSymbol) /\ ~Called("requests.get")
        /\ ~SymbolMissing /\ DateMissing => Flashed(MsgDates) /\ ~Called("requests.get")
        /\ ~SymbolMissing /\ ~DateMissing /\ DateUnparseable =>
               Flashed(MsgFormat) /\ ~Called("requests.get")
        /\ ~SymbolMissing /\ ~DateMissing /\ ~DateUnparseable /\ EndBeforeStart =>
               Flashed(MsgRange) /\ ~Called("requests.get")
        /\ Called("requests.get") =>
               ~SymbolMissing /\ ~DateMissing /\ ~DateUnparseable /\ ~EndBeforeStart
        /\ CallCount("requests.get") <= 1

(***************************************************************************)
(* C2: for a series of well-formed timestamps and a range with end >=      *)
(* start, filter_by_date_range keeps exactly the entries whose day (the    *)
(* time of day dropped) lies in the range, both ends included.             *)
(***************************************************************************)
C2_FilterExact ==
    (FilterCompleted /\ SeriesKeyPresent) =>
        /\ \A e \in Entries(raw_data[1].series) :
               (e \in Entries(filtered_data)) <=> DayInRange(e.k)
        /\ Entries(filtered_data) \subseteq Entries(raw_data[1].series)
        /\ Cardinality(Entries(filtered_data)) = Len(filtered_data)

\* an intraday entry dated on the day that is both start and end is kept,
\* and a later entry is dropped
C2_Witness ==
    /\ FilterCompleted /\ SeriesKeyPresent
    /\ start_date = end_date
    /\ Len(raw_data[1].series) = 2
    /\ Len(filtered_data) = 1
    /\ StampOf(filtered_data[1].k).hour = 10
    /\ Ordinal(start_date) = Ordinal(<<2024, 1, 2>>)

(***************************************************************************)
(* C3: a reply whose payload holds the error-message key or the advisory   *)
(* note key makes fetch_stock_data return None, even when the payload also *)
(* holds a series; the submission reports the fetch failure and neither    *)
(* the series processor nor the chart renderer runs.                       *)
(***************************************************************************)
ApiFailureReply ==
    /\ remote # <<>>
    /\ remote[1].transport = "ok"
    /\ remote[1].json
    /\ remote[1].body.kind = "object"
    /\ remote[1].body.keys \cap {"Error Message", "Note"} # {}

\* C3: after such a reply nothing is returned, processed or rendered, and
\* the fetch failure is reported
C3_ApiFailureStops ==
    ApiFailureReply =>
        /\ raw_data = <<>>
        /\ calls = <<"fetch_stock_data", "requests.get">>
        /\ filtered_data = <<>> /\ formatted_data = <<>> /\ chart_html = <<>>
        /\ Flashed(MsgFetch)
        /\ FormRedisplayed
        /\ pc = "done"

\* the advisory note comes with a series that would have matched
C3_Witness ==
    /\ ApiFailureReply
    /\ remote[1].status = 200
    /\ "Note" \in remote[1].body.keys
    /\ remote[1].body.series # <<>>
    /\ time_series = 2
    /\ time_series_key_map[2] \in remote[1].body.keys
    /\ DayInRange(remote[1].body.series[1].k)

(***************************************************************************)
(* C4: on a timeout, a status outside 2xx or a malformed payload (a body   *)
(* that is not JSON, or JSON that is not an object) fetch_stock_data       *)
(* returns None and raises nothing.                                        *)
(***************************************************************************)
TransportFailure ==
    /\ remote # <<>>
    /\ \/ remote[1].transport # "ok"
       \/ remote[1].status \notin 200..299
       \/ ~remote[1].json
       \/ remote[1].body.kind # "object"

\* C4: after a transport-level failure fetch_stock_data has returned None
\* and nothing was raised
C4_TransportFailureIsNone ==
    TransportFailure => ~Crashed /\ raw_data = <<>>

(***************************************************************************)
(* C5: with valid inputs and a usable fetch, the warning "No data found"   *)
(* naming the symbol and the range is what a submission ends in when no    *)
(* entry survives the date filter.  As claimed, this outcome differs for   *)
(* the user from a fetch failure and from a reply that lacks the series    *)
(* key of the granularity; as amended, it differs from a fetch failure,    *)
(* and a reply that lacks the series key ends in the same warning (and not *)
(* in a crash).                                                            *)
(***************************************************************************)
EmptyWarning ==
    /\ flashes = <<Flash("warning", MsgEmpty, <<73, 66, 77>>,
                         Submitted(form.start_date), Submitted(form.end_date), 0)>>
    /\ FormRedisplayed

FetchFailureReported ==
    /\ flashes = <<Flash("error", MsgFetch, <<>>, <<>>, <<>>, 0)>>
    /\ FormRedisplayed

ProcessingDone == Called("filter_by_date_range") /\ pc # "process"

\* C5 as stated: no surviving entry gives the Empty warning, which a reply
\* without the series key does not give
C5_EmptyDistinctFromMissingKey ==
    ProcessingDone =>
        /\ (FilterCompleted /\ SeriesKeyPresent /\ filtered_data = <<>>) => EmptyWarning
        /\ EmptyWarning => Truthy(raw_data[1])
        /\ ~SeriesKeyPresent => ~Crashed /\ ~EmptyWarning

\* C5 as amended: the Empty warning is given exactly when filtering ends
\* with no entry, a reply without the series key included; a fetch failure
\* gives the fetch-failure error instead
C5_EmptyWarning ==
    /\ ProcessingDone =>
           /\ (FilterCompleted /\ filtered_data = <<>>) => EmptyWarning
           /\ EmptyWarning => FilterCompleted /\ filtered_data = <<>> /\ Truthy(raw_data[1])
           /\ ~SeriesKeyPresent => ~Crashed /\ EmptyWarning
    /\ (Answered /\ Called("requests.get") /\ ~Called("filter_by_date_range") /\ ~Crashed) =>
           FetchFailureReported /\ ~EmptyWarning

\* the series is there, and every entry of it lies outside the range
C5_Witness ==
    /\ ProcessingDone /\ SeriesKeyPresent
    /\ Len(raw_data[1].series) = 2
    /\ \A e \in Entries(raw_data[1].series) : WellFormed(e.k) /\ ~DayInRange(e.k)
    /\ EmptyWarning

(***************************************************************************)
(* C6: every submission ends with the form shown again, the symbol list    *)
(* intact; none ends in an exception, and a chart is shown only when       *)
(* validation, fetch, filtering and rendering all succeeded.               *)
(***************************************************************************)
ChartShown == Answered /\ response[1].kind = "template" /\ response[1].chart_html # <<>>

\* C6: a finished submission has raised nothing and shows the symbol list;
\* a chart is shown only after every stage ran and succeeded
C6_NeverCrashes ==
    (pc = "done") =>
        /\ ~Crashed
        /\ response[1].symbols = load_symbols(stocks_csv)
        /\ ChartShown =>
               /\ calls = <<"fetch_stock_data", "requests.get", "filter_by_date_range",
                            "get_formatted_data", "create_chart">>
               /\ Flashed(MsgSuccess)
               /\ filtered_data # <<>>
        /\ ~ChartShown /\ method = "POST" => ~Flashed(MsgSuccess)

(***************************************************************************)
(* C7: whenever get_formatted_data returns a result, its dates, open,      *)
(* high, low and close have one length, the number of entries the filter   *)
(* kept, also when several kept entries share a date.                      *)
(***************************************************************************)
C7_EqualLengths ==
    (formatted_data # <<>>) =>
        LET data == formatted_data[1]
        IN  /\ Len(data.dates) = Len(filtered_data)
            /\ Len(data.open) = Len(filtered_data)
            /\ Len(data.high) = Len(filtered_data)
            /\ Len(data.low) = Len(filtered_data)
            /\ Len(data.close) = Len(filtered_data)

\* two intraday entries of one day are both kept
C7_Witness ==
    /\ formatted_data # <<>>
    /\ Len(filtered_data) = 2
    /\ formatted_data[1].dates[1] = formatted_data[1].dates[2]

(***************************************************************************)
(* C8: whatever the arrival order, get_formatted_data emits the kept       *)
(* entries in ascending order of timestamp, which is their order in time:  *)
(* the dates never go back, and index i of open, high, low and close holds *)
(* the prices of the entry whose date is at index i.                       *)
(***************************************************************************)
\* when a timestamp is, as one number
Instant(key) ==
    LET t == StampOf(key)
    IN  Ordinal(<<t.y, t.m, t.d>>) * 100 + (IF t.hour = 24 THEN 0 ELSE t.hour)

\* the orders of the kept entries that go forward in time
ChronologicalOrders ==
    {o \in [1..Len(filtered_data) -> Entries(filtered_data)] :
        /\ \A i, j \in 1..Len(filtered_data) : i # j => o[i] # o[j]
        /\ \A i, j \in 1..Len(filtered_data) : i < j => Instant(o[i].k) <= Instant(o[j].k)}

DateLabel(key) == LET t == StampOf(key) IN IsoDate(t.y, t.m, t.d)

\* C8: the output is the kept entries in an order that goes forward in
\* time, the prices at each index being those of the entry dated there
C8_ChronologicalOutput ==
    (formatted_data # <<>>) =>
        LET data == formatted_data[1]
        IN  \E o \in ChronologicalOrders :
                \A i \in 1..Len(filtered_data) :
                    /\ data.dates[i] = DateLabel(o[i].k)
                    /\ data.open[i] = FloatValue(o[i].v["1. open"])
                    /\ data.high[i] = FloatValue(o[i].v["2. high"])
                    /\ data.low[i] = FloatValue(o[i].v["3. low"])
                    /\ data.close[i] = FloatValue(o[i].v["4. close"])

\* the later entry arrived first, and a year lies between the two
C8_Witness ==
    /\ formatted_data # <<>>
    /\ Len(filtered_data) = 2
    /\ StrLess(filtered_data[2].k, filtered_data[1].k)
    /\ formatted_data[1].dates[1] # formatted_data[1].dates[2]

(***************************************************************************)
(* C9: create_chart returns None exactly for an empty series, index()      *)
(* calls it with a series that is not empty, and so no submission ends in  *)
(* "Failed to generate chart".                                             *)
(***************************************************************************)
C9_RenderFailureUnreachable ==
    /\ create_chart(<<>>, <<>>, 1, <<>>, <<>>) = <<>>
    /\ create_chart(<<EmptyFormatted>>, <<>>, 2, <<>>, <<>>) = <<>>
    /\ ~Flashed(MsgChart)
    /\ Called("create_chart") =>
           /\ formatted_data # <<>>
           /\ formatted_data[1].dates # <<>>
           /\ chart_html # <<>>
           /\ chart_html[1].labels = formatted_data[1].dates
           /\ ChartShown

\* a chart of a single point is shown
C9_Witness ==
    /\ Called("create_chart")
    /\ ChartShown
    /\ Len(formatted_data[1].dates) = 1

(***************************************************************************)
(* C10: for each granularity 1..4 the request names the function of that   *)
(* granularity (intraday, daily, weekly, monthly), the symbol, the API key *)
(* and outputsize=full, and has interval=60min exactly when the            *)
(* granularity is 1.                                                       *)
(***************************************************************************)
C10_RequestParams ==
    Called("requests.get") =>
        /\ time_series \in 1..4
        /\ params.function =
               (IF time_series = 1 THEN "TIME_SERIES_INTRADAY"
                ELSE IF time_series = 2 THEN "TIME_SERIES_DAILY"
                ELSE IF time_series = 3 THEN "TIME_SERIES_WEEKLY"
                ELSE "TIME_SERIES_MONTHLY")
        /\ params.symbol = <<73, 66, 77>>
        /\ params.apikey = API_KEY
        /\ params.outputsize = "full"
        /\ ("interval" \in DOMAIN params) <=> (time_series = 1)
        /\ (time_series = 1) => params.interval = "60min"
        /\ DOMAIN params \subseteq {"function", "symbol", "apikey", "outputsize", "interval"}

\* a daily request: no interval
C10_Witness ==
    /\ Called("requests.get")
    /\ time_series = 2
    /\ "interval" \notin DOMAIN params

====
